---- MODULE Spec2Model ----
(***************************************************************************)
(* Run/instance resolution and ephemeral execution of the task             *)
(* sub-commands (airflow/cli/commands/task_command.py): _get_dag_run,      *)
(* _get_ti, task_test and the commands that call _get_ti.                  *)
(*                                                                         *)
(* The metadata database is the pair (dag_runs, task_instances) plus the   *)
(* DagVersion table; the process state is the task logger, os.environ,     *)
(* settings.MASK_SECRETS_IN_LOGS and the clock.                            *)
(***************************************************************************)
EXTENDS Integers, Sequences, FiniteSets, TLC

(***************************************************************************)
(* Bounds.                                                                 *)
(***************************************************************************)
\* Clock instants available to the model: every task_test invocation starts
\* at a later instant than the previous one, so this also bounds their number.
MaxClock == 2

\* Clock ticks (microseconds) that make up one second.
TicksPerSecond == 3

(***************************************************************************)
(* Python values.  A string is a sequence of pieces: literal text and the  *)
(* ISO-8601 rendering of an instant.  None is a value of its own, distinct *)
(* from the empty string; both are falsy.                                  *)
(***************************************************************************)
None == [t |-> "none"]

Str(s) == [t |-> "str", s |-> s]

Lit(text) == [lit |-> text]

\* An aware datetime holding instant n.
Dt(n) == [t |-> "dt", v |-> n]

\* datetime.isoformat(timespec="seconds") would drop the fraction.
IsoFormatSeconds(n) == [iso |-> <<n \div TicksPerSecond>>]

\* datetime.isoformat(): the canonical text of an instant, its seconds and,
\* unless it is zero, its microsecond fraction.
IsoFormat(n) ==
    IF n % TicksPerSecond = 0
    THEN [iso |-> <<n \div TicksPerSecond>>]
    ELSE [iso |-> <<n \div TicksPerSecond, n % TicksPerSecond>>]

\* The instant an ISO-8601 text denotes.
ParseIso(fields) ==
    IF Len(fields) = 1 THEN fields[1] * TicksPerSecond
    ELSE fields[1] * TicksPerSecond + fields[2]

\* Python truthiness of an optional string: `not x` is ~Truthy(x).
Truthy(v) == v # None /\ v # Str(<<>>)

\* A date written without its time part: parses to an instant, but is not
\* the isoformat of that instant.
ShortDate1 == Str(<<Lit("2024-01-01")>>)

LongDate2 == Str(<<IsoFormat(2)>>)

RunIdA == Str(<<Lit("manual_a")>>)

\* timezone.parse(value): the instant a string denotes, None when it is not
\* a date (ParserError / TypeError are caught by the caller).
ParseDate(value) ==
    IF value = ShortDate1 THEN Dt(1)
    ELSE IF value.t = "str" /\ Len(value.s) = 1 /\ "iso" \in DOMAIN value.s[1]
         THEN Dt(ParseIso(value.s[1].iso))
         ELSE None

\* _generate_temporary_run_id(): f"__airflow_temporary_run_{utcnow().isoformat()}__"
GenerateTemporaryRunId(now) ==
    Str(<<Lit("__airflow_temporary_run_"), IsoFormat(now), Lit("__")>>)

(***************************************************************************)
(* Workflows and tasks.                                                    *)
(***************************************************************************)
Dags == {"W1", "W2"}

NoDag == "no_dag"

\* dag.task_dict: the task ids of a workflow.
TaskDict(dag_id) == {"t1", "m1"}

\* A task definition: its workflow (NoDag when unassigned), its id and
\* whether it needs expansion (is mapped).
Task(dag_id, task_id) ==
    [dag |-> dag_id, task_id |-> task_id, mapped |-> (task_id = "m1")]

\* The tasks dag.get_task can return.
DagTasks == {Task(d, t) : d \in Dags, t \in {"t1", "m1"}}

\* Task objects a direct caller of _get_ti may hold: also one not assigned
\* to a workflow and one whose id its workflow does not list.
AllTasks == DagTasks \cup {Task(NoDag, "t1"), Task("W1", "zz")}

MapIndexes == {-1, 0}

\* logical_date_or_run_id values the commands are called with.
Identifiers == {None, Str(<<>>), RunIdA, ShortDate1, LongDate2}

(***************************************************************************)
(* Rows of the metadata database.                                          *)
(***************************************************************************)
DagRun(dag_id, run_id, logical_date, run_after, state) ==
    [t |-> "run", dag_id |-> dag_id, run_id |-> run_id,
     logical_date |-> logical_date, run_after |-> run_after, state |-> state]

TiRow(dag_id, run_id, task_id, map_index) ==
    [dag_id |-> dag_id, run_id |-> run_id, task_id |-> task_id,
     map_index |-> map_index]

\* Runs the database may hold before the first command: a manual run, a run
\* whose run id is itself date-like, and a run of the other workflow that
\* shares the first one's run id.
RunA == DagRun("W1", RunIdA, Dt(1), Dt(1), "success")

RunB == DagRun("W1", ShortDate1, Dt(2), Dt(2), "success")

RunC == DagRun("W2", RunIdA, Dt(2), Dt(2), "failed")

InitialRunSets == {{}, {RunA}, {RunA, RunB, RunC}}

\* RunA is the only initial run that already has task instances.
InitialTis(runs) ==
    IF RunA \in runs
    THEN {TiRow("W1", RunIdA, "t1", -1), TiRow("W1", RunIdA, "m1", 0)}
    ELSE {}

(***************************************************************************)
(* Exceptions and results.                                                 *)
(***************************************************************************)
Exc(type, msg) == [type |-> type, msg |-> msg]

NoExc == Exc("none", "")

\* CreateIfNecessary = Literal[False, "db", "memory"]; "bogus" stands for any
\* other truthy value a caller could pass.
CreateFalse == "False"

\* Truthiness of create_if_necessary: `not create_if_necessary` is ~ModeTruthy.
ModeTruthy(create_if_necessary) == create_if_necessary # CreateFalse

(***************************************************************************)
(* The store operations _get_dag_run and _get_ti consume.                  *)
(***************************************************************************)
\* fetch_dag_run_from_run_id_or_logical_date_string: first a run of the
\* workflow whose run id is the value, then one whose logical date is the
\* parsed value; the parsed date is returned even without a match.
FetchDagRun(runs, dag_id, value) ==
    LET by_id == {r \in runs : r.dag_id = dag_id /\ r.run_id = value}
        parsed == ParseDate(value)
        by_date == {r \in runs : r.dag_id = dag_id /\ r.logical_date = parsed}
    IN  IF by_id # {}
        THEN LET r == CHOOSE x \in by_id : TRUE
             IN  [dag_run |-> r, logical_date |-> r.logical_date]
        ELSE IF parsed = None
             THEN [dag_run |-> None, logical_date |-> None]
             ELSE IF by_date = {}
                  THEN [dag_run |-> None, logical_date |-> parsed]
                  ELSE [dag_run |-> CHOOSE x \in by_date : TRUE,
                        logical_date |-> parsed]

\* dag.timetable.infer_manual_data_interval(run_after=d).
InferManualDataInterval(d) == [start |-> d, end |-> d]

\* _get_or_create_dagrun: the run of (workflow, run id) if the store holds
\* one, else a new run added to the store.
GetOrCreateDagrun(runs, dag_id, run_id, logical_date, run_after) ==
    LET same == {r \in runs : r.dag_id = dag_id /\ r.run_id = run_id}
        new == DagRun(dag_id, run_id, logical_date, run_after, "running")
    IN  IF same # {}
        THEN [dag_run |-> CHOOSE r \in same : TRUE, runs |-> runs]
        ELSE [dag_run |-> new, runs |-> runs \cup {new}]

\* dag_run.get_task_instance(task_id, map_index=..., session=...).
GetTaskInstance(tis, dag_run, task_id, map_index) ==
    LET row == TiRow(dag_run.dag_id, dag_run.run_id, task_id, map_index)
    IN  IF row \in tis THEN row ELSE None

\* DagVersion.get_latest_version(dag_id): None when nothing is serialized.
GetLatestVersion(versions, dag_id) ==
    IF dag_id \in versions THEN [dag_id |-> dag_id] ELSE None

\* session.delete(run): the run row goes, and the task instances that
\* reference it go with it.
DeleteRun(db, run) ==
    [runs |-> db.runs \ {run},
     tis |-> {x \in db.tis :
                ~(x.dag_id = run.dag_id /\ x.run_id = run.run_id)}]

\* The session scope around _get_ti (provide_session): what the database
\* holds when the scope is left, given what it held before and what the
\* call wrote.  Writes made through the store are kept.
CloseSession(before, after, exc) == after

(***************************************************************************)
(* _get_dag_run                                                            *)
(***************************************************************************)
DagRunResult(exc, dag_run, created, runs, fetched) ==
    [exc |-> exc, dag_run |-> dag_run, created |-> created, runs |-> runs,
     fetched |-> fetched]

\* line 102: neither an identifier nor permission to create.
IdentifierNeverMissing(ident, create_if_necessary) == FALSE

MissingIdentifier(ident, create_if_necessary) ==
    ~Truthy(ident) /\ ~ModeTruthy(create_if_necessary)

\* line 182: the same test, made by _get_ti before it resolves the run.
TiMissingIdentifier(ident, create_if_necessary) ==
    ~Truthy(ident) /\ ~ModeTruthy(create_if_necessary)

\* lines 112-113: an existing run is returned as it is, not created.
ReturnExistingAsCreated(dag_run, runs) ==
    DagRunResult(NoExc, dag_run, TRUE, runs, TRUE)

ReturnExisting(dag_run, runs) ==
    DagRunResult(NoExc, dag_run, FALSE, runs, TRUE)

\* lines 114-117.
RunCreationRefused(create_if_necessary) == ~ModeTruthy(create_if_necessary)

\* lines 131-143: the run is built in memory with the input as its run id.
CreateInMemory(runs, dag_id, ident, logical_date, run_after, fetched) ==
    DagRunResult(NoExc,
                 DagRun(dag_id, ident, logical_date, run_after, "running"),
                 TRUE, runs, fetched)

\* lines 144-158: the run is created in the store under a temporary run id.
CreateInDb(runs, now, dag_id, logical_date, run_after, fetched) ==
    LET got == GetOrCreateDagrun(runs, dag_id, GenerateTemporaryRunId(now),
                                 logical_date, run_after)
    IN  DagRunResult(NoExc, got.dag_run, TRUE, got.runs, fetched)

\* lines 81-159.  The run's type, trigger channel and triggering user name
\* (lines 126-130: a failing getuser() only logs a warning) are the same for
\* every run created here and are not carried in the rows.
GetDagRun(runs, now, dag_id, create_if_necessary, ident) ==
    LET found == FetchDagRun(runs, dag_id, ident)
        fetched == Truthy(ident)
        logical_date == IF fetched THEN found.logical_date ELSE None
        \* timezone.coerce_datetime keeps the instant (and None)
        dag_run_logical_date == logical_date
        data_interval ==
            IF dag_run_logical_date # None
            THEN InferManualDataInterval(dag_run_logical_date)
            ELSE None
        run_after == IF data_interval # None THEN data_interval.end ELSE Dt(now)
    IN  IF MissingIdentifier(ident, create_if_necessary)
        THEN DagRunResult(Exc("ValueError", "must provide"), None, FALSE,
                          runs, FALSE)
        ELSE IF fetched /\ found.dag_run # None
        THEN ReturnExisting(found.dag_run, runs)
        ELSE IF fetched /\ RunCreationRefused(create_if_necessary)
        THEN DagRunResult(Exc("DagRunNotFound", "not found"), None, FALSE,
                          runs, TRUE)
        ELSE IF create_if_necessary = "memory"
        THEN CreateInMemory(runs, dag_id, ident, dag_run_logical_date,
                            run_after, fetched)
        ELSE IF create_if_necessary = "db"
        THEN CreateInDb(runs, now, dag_id, dag_run_logical_date, run_after,
                        fetched)
        ELSE DagRunResult(Exc("ValueError", "unknown create_if_necessary"),
                          None, FALSE, runs, fetched)

(***************************************************************************)
(* _get_ti                                                                 *)
(***************************************************************************)
\* A TaskInstance object as _get_ti returns it: `task` is the definition
\* refresh_from_task bound it to, `persisted` whether it is a row of the
\* session (an existing row, or one registered with session.add),
\* `constructed` whether this call built it (line 211) rather than got it
\* from the lookup (line 216).
TaskInstance(task, dag_run, map_index, persisted, constructed) ==
    [t |-> "ti", dag_id |-> dag_run.dag_id, run_id |-> dag_run.run_id,
     task_id |-> task.task_id, map_index |-> map_index, dag_run |-> dag_run,
     task |-> task, persisted |-> persisted, constructed |-> constructed,
     state |-> "none"]

TiResult(exc, ti, dr_created, dag_run, runs, tis, fetched) ==
    [exc |-> exc, ti |-> ti, dr_created |-> dr_created, dag_run |-> dag_run,
     runs |-> runs, tis |-> tis, fetched |-> fetched]

\* lines 184-188: a mapped task needs map_index >= 0, any other task < 0.
MapIndexErrorOffByOne(task, map_index) ==
    IF task.mapped
    THEN IF map_index < 0
         THEN Exc("RuntimeError", "No map_index passed to mapped task")
         ELSE NoExc
    ELSE IF map_index > 0
         THEN Exc("RuntimeError", "map_index passed to non-mapped task")
         ELSE NoExc

MapIndexError(task, map_index) ==
    IF task.mapped
    THEN IF map_index < 0
         THEN Exc("RuntimeError", "No map_index passed to mapped task")
         ELSE NoExc
    ELSE IF map_index >= 0
         THEN Exc("RuntimeError", "map_index passed to non-mapped task")
         ELSE NoExc

\* line 199: without create_if_necessary a missing instance is an error.
TiCreationNeverRefused(create_if_necessary) == FALSE

TiCreationRefused(create_if_necessary) == ~ModeTruthy(create_if_necessary)

\* lines 205-210: a new instance needs a serialized version of the workflow.
AlwaysSerialized(versions, dag_id) == FALSE

NotSerialized(versions, dag_id) == GetLatestVersion(versions, dag_id) = None

\* line 212, `dag_run in session`: a run fetched or created through the
\* session is in it, a run constructed in memory is not.
InSessionAlways(dr, create_if_necessary) == TRUE

InSession(dr, create_if_necessary) ==
    ~(dr.created /\ create_if_necessary = "memory")

\* line 198: `if ti_or_none is None` takes the creating branch.
TiFoundNever(ti_or_none) == FALSE

TiFound(ti_or_none) == ti_or_none # None

\* lines 196-216, after the run is resolved.
BindInstance(dr, tis, versions, task, map_index, create_if_necessary) ==
    LET ti_or_none ==
            GetTaskInstance(tis, dr.dag_run, task.task_id, map_index)
        in_session == InSession(dr, create_if_necessary)
        row == TiRow(dr.dag_run.dag_id, dr.dag_run.run_id, task.task_id,
                     map_index)
    IN  IF TiFound(ti_or_none)
        THEN TiResult(NoExc,
                      TaskInstance(task, dr.dag_run, map_index, TRUE, FALSE),
                      dr.created, dr.dag_run, dr.runs, tis, dr.fetched)
        ELSE IF TiCreationRefused(create_if_necessary)
        THEN TiResult(Exc("TaskInstanceNotFound", "not found"), None, FALSE,
                      dr.dag_run, dr.runs, tis, dr.fetched)
        ELSE IF NotSerialized(versions, task.dag)
        THEN TiResult(Exc("ValueError", "Dag is not serialized"), None, FALSE,
                      dr.dag_run, dr.runs, tis, dr.fetched)
        ELSE TiResult(NoExc,
                      TaskInstance(task, dr.dag_run, map_index, in_session,
                                   TRUE),
                      dr.created, dr.dag_run, dr.runs,
                      IF in_session THEN tis \cup {row} ELSE tis,
                      dr.fetched)

GetTi(runs, tis, versions, now, task, map_index, ident, create_if_necessary) ==
    IF task.dag = NoDag
    THEN TiResult(Exc("ValueError", "task not assigned to a DAG"), None,
                  FALSE, None, runs, tis, FALSE)
    ELSE IF task.task_id \notin TaskDict(task.dag)
    THEN TiResult(Exc("ValueError", "task is not in dag"), None, FALSE, None,
                  runs, tis, FALSE)
    ELSE IF TiMissingIdentifier(ident, create_if_necessary)
    THEN TiResult(Exc("ValueError", "must provide"), None, FALSE, None, runs,
                  tis, FALSE)
    ELSE IF MapIndexError(task, map_index) # NoExc
    THEN TiResult(MapIndexError(task, map_index), None, FALSE, None, runs,
                  tis, FALSE)
    ELSE LET dr == GetDagRun(runs, now, task.dag, create_if_necessary, ident)
         IN  IF dr.exc # NoExc
             THEN TiResult(dr.exc, None, FALSE, None, dr.runs, tis,
                           dr.fetched)
             ELSE BindInstance(dr, tis, versions, task, map_index,
                               create_if_necessary)

(***************************************************************************)
(* Process state task_test reads and writes.                               *)
(***************************************************************************)
\* Handler classes a logger may carry; FileTaskHandler is no StreamHandler.
IsStreamHandler(handler) == handler = "StreamHandler"

HandlerConfigs ==
    {<<>>, <<"FileTaskHandler">>, <<"FileTaskHandler", "StreamHandler">>}

\* lines 370-374: the loop over the task logger's handlers.
RECURSIVE ScanHandlers(_, _)
ScanHandlers(hs, already) ==
    IF hs = <<>> THEN already
    ELSE IF IsStreamHandler(Head(hs)) THEN TRUE
    ELSE ScanHandlers(Tail(hs), FALSE)

AlreadyHasStreamHandler(hs) == ScanHandlers(hs, FALSE)

\* A dict is a set of items; dict.update(other) replaces the keys of other.
Item(k, v) == [k |-> k, v |-> v]

Keys(d) == {e.k : e \in d}

Update(d, other) == {e \in d : e.k \notin Keys(other)} \cup other

\* args.env_vars: nothing, or one override.
EnvVarArgs == {{}, {Item("MY_VAR", "1")}}

\* lines 378-381.
MergeEnviron(env, arg_env_vars) ==
    LET env_vars == Update({Item("AIRFLOW_TEST_MODE", "True")}, arg_env_vars)
    IN  IF arg_env_vars # {} THEN Update(env, env_vars) ELSE env

SUPPORTED_DEBUGGER_MODULES == <<"pudb", "web_pdb", "pdbr", "ipdb", "pdb">>

\* Sets of debugger modules importlib can load.
InstalledSets == {{}, {"pdb"}, {"ipdb", "pdb"}}

\* _guess_debugger: the first module of the list that imports, "ImportError"
\* when none does.
RECURSIVE GuessFrom(_, _)
GuessFrom(mods, installed) ==
    IF mods = <<>> THEN "ImportError"
    ELSE IF Head(mods) \in installed THEN Head(mods)
    ELSE GuessFrom(Tail(mods), installed)

GuessDebuggerPdbOnly(installed) ==
    IF "pdb" \in installed THEN "pdb" ELSE "ImportError"

GuessDebugger(installed) == GuessFrom(SUPPORTED_DEBUGGER_MODULES, installed)

(***************************************************************************)
(* State.                                                                  *)
(***************************************************************************)
VARIABLES
    dag_runs,        \* DagRun rows of the metadata database
    task_instances,  \* TaskInstance rows of the metadata database
    dag_versions,    \* workflows that have a serialized version
    propagate,       \* logging.getLogger("airflow.task").propagate
    handlers,        \* logging.getLogger("airflow.task").handlers
    environ,         \* os.environ
    mask_secrets,    \* settings.MASK_SECRETS_IN_LOGS
    now,             \* timezone.utcnow()
    frame,           \* the task_test invocation in progress
    res,             \* the last _get_dag_run / _get_ti call and its result
    procs            \* task_test invocations running as concurrent processes

vars == <<dag_runs, task_instances, dag_versions, propagate, handlers,
          environ, mask_secrets, now, frame, res, procs>>

Db == [runs |-> dag_runs, tis |-> task_instances]

NoRes == [op |-> "none"]

\* The locals of task_test.  The fields of `args` are each read at one
\* program point and are drawn there.  propagate0, runs0 and made record
\* the logger flag and the runs at the call and the runs the invocation
\* created.
IdleFrame ==
    [pc |-> "idle", task |-> None, map_index |-> -1, ident |-> None, post_mortem |-> FALSE,
     already_has_stream_handler |-> FALSE, ti |-> None, dr_created |-> FALSE,
     exc |-> NoExc, executed |-> FALSE, debugger |-> "none", installed |-> {},
     propagate0 |-> FALSE, runs0 |-> {}, made |-> {}]

\* The command-line processes that may run at the same time.
Procs == {1, 2}

\* The locals of one concurrent task_test: the run it resolved, whether it
\* created it, and whether the fetch found a run.
IdleProc ==
    [pc |-> "idle", task |-> None, ident |-> None, matched |-> FALSE,
     logical_date |-> None, dag_run |-> None, dr_created |-> FALSE,
     exc |-> NoExc]

Init ==
    /\ procs = [p \in Procs |-> IdleProc]
    /\ dag_runs \in InitialRunSets
    /\ task_instances = InitialTis(dag_runs)
    /\ dag_versions = {"W1"}
    /\ propagate \in BOOLEAN
    /\ handlers \in HandlerConfigs
    /\ environ = {}
    /\ mask_secrets = FALSE
    /\ now = 0
    /\ frame = IdleFrame
    /\ res = NoRes

(***************************************************************************)
(* task_test                                                               *)
(***************************************************************************)
\* The command is started: a new process at a later instant.
TaskTestCall ==
    /\ frame.pc = "idle"
    /\ res = NoRes
    /\ now < MaxClock
    /\ now' = now + 1
    /\ frame' = [IdleFrame EXCEPT !.pc = "setup", !.propagate0 = propagate,
                                  !.runs0 = dag_runs]
    /\ res' = NoRes
    /\ UNCHANGED <<procs, dag_runs, task_instances, dag_versions, propagate,
                   handlers, environ, mask_secrets>>

\* lines 367-381: secret masking, log propagation, environment.
TaskTestSetup(env_vars) ==
    /\ frame.pc = "setup"
    /\ mask_secrets' = TRUE
    /\ propagate' = IF ~AlreadyHasStreamHandler(handlers) THEN TRUE
                    ELSE propagate
    /\ environ' = MergeEnviron(environ, env_vars)
    /\ frame' = [frame EXCEPT !.pc = "load",
                              !.already_has_stream_handler =
                                  AlreadyHasStreamHandler(handlers)]
    /\ UNCHANGED <<procs, dag_runs, task_instances, dag_versions, handlers, now, res>>

\* lines 383-385: dag.get_task raises for an id the workflow does not have.
TaskTestLoad(dag_id, task_id) ==
    /\ frame.pc = "load"
    /\ frame' = IF task_id \in TaskDict(dag_id)
                THEN [frame EXCEPT !.pc = "params",
                                   !.task = Task(dag_id, task_id)]
                ELSE [frame EXCEPT !.pc = "done",
                                   !.exc = Exc("TaskNotFound", task_id)]
    /\ UNCHANGED <<procs, dag_runs, task_instances, dag_versions, propagate,
                   handlers, environ, mask_secrets, now, res>>

\* args.task_params: absent, accepted, not JSON, or rejected by validate().
TaskParamArgs == {"none", "valid", "not_json", "invalid"}

\* lines 387-392.
ParamsError(task_params) ==
    IF task_params = "not_json" THEN Exc("JSONDecodeError", "")
    ELSE IF task_params = "invalid" THEN Exc("ParamValidationError", "")
    ELSE NoExc

TaskTestParams(task_params) ==
    /\ frame.pc = "params"
    /\ frame' = IF ParamsError(task_params) = NoExc
                THEN [frame EXCEPT !.pc = "bind"]
                ELSE [frame EXCEPT !.pc = "done",
                                   !.exc = ParamsError(task_params)]
    /\ UNCHANGED <<procs, dag_runs, task_instances, dag_versions, propagate,
                   handlers, environ, mask_secrets, now, res>>

\* What a call of _get_dag_run / _get_ti was given, what it returned and what
\* the database held before it; `first` is the result of the call before it
\* when this call repeats that one.
Observed(op, caller, task, map_index, ident, create_if_necessary, out) ==
    [op |-> op, caller |-> caller, task |-> task, map_index |-> map_index,
     ident |-> ident, mode |-> create_if_necessary, out |-> out,
     pre_runs |-> dag_runs, pre_tis |-> task_instances, first |-> None]

\* lines 394-396: _get_ti(..., create_if_necessary="db"), outside the try.
TaskTestBind(map_index, ident) ==
    /\ frame.pc = "bind"
    /\ LET r == GetTi(dag_runs, task_instances, dag_versions, now, frame.task,
                      map_index, ident, "db")
           after == CloseSession(Db, [runs |-> r.runs, tis |-> r.tis], r.exc)
       IN  /\ dag_runs' = after.runs
           /\ task_instances' = after.tis
           /\ frame' = IF r.exc = NoExc
                       THEN [frame EXCEPT !.pc = "run", !.ti = r.ti,
                                          !.dr_created = r.dr_created,
                                          !.map_index = map_index,
                                          !.ident = ident,
                                          !.made = after.runs \ dag_runs]
                       ELSE [frame EXCEPT !.pc = "done", !.exc = r.exc,
                                          !.map_index = map_index,
                                          !.ident = ident,
                                          !.made = after.runs \ dag_runs]
           /\ res' = Observed("get_ti", "task_test", frame.task, map_index,
                              ident, "db", r)
    /\ UNCHANGED <<procs, dag_versions, propagate, handlers, environ, mask_secrets,
                   now>>

\* _run_task(ti=ti, run_triggerer=True): the instance ends in a state, or the
\* task's exception comes out.
RunTaskOutcomes == {"success", "failed", "raise"}

\* lines 398-399.
TaskTestRun(outcome) ==
    /\ frame.pc = "run"
    /\ frame' = IF outcome = "raise"
                THEN [frame EXCEPT !.pc = "finally", !.executed = TRUE,
                                   !.exc = Exc("TaskError", "")]
                ELSE [frame EXCEPT !.pc = "debug", !.executed = TRUE,
                                   !.ti = [frame.ti EXCEPT !.state = outcome]]
    /\ res' = NoRes
    /\ UNCHANGED <<procs, dag_runs, task_instances, dag_versions, propagate,
                   handlers, environ, mask_secrets, now>>

\* lines 400-402.
TaskTestDebug(post_mortem, installed) ==
    /\ frame.pc = "debug"
    /\ frame' = IF frame.ti.state = "failed" /\ post_mortem
                THEN IF GuessDebugger(installed) = "ImportError"
                     THEN [frame EXCEPT !.pc = "finally",
                                        !.post_mortem = post_mortem,
                                        !.installed = installed,
                                        !.exc = Exc("ImportError", "")]
                     ELSE [frame EXCEPT !.pc = "finally",
                                        !.post_mortem = post_mortem,
                                        !.installed = installed,
                                        !.debugger = GuessDebugger(installed)]
                ELSE [frame EXCEPT !.pc = "finally",
                                   !.post_mortem = post_mortem]
    /\ UNCHANGED <<procs, dag_runs, task_instances, dag_versions, propagate,
                   handlers, environ, mask_secrets, now, res>>

\* lines 404-407: the flag is written back only if it was forced on.
RestorePropagate(already_has_stream_handler, flag) ==
    IF ~already_has_stream_handler THEN FALSE ELSE flag

\* lines 408-410: a run this invocation created is deleted.
CleanupRunNever(db, dr_created, dag_run) == db

CleanupRunAlways(db, dr_created, dag_run) == DeleteRun(db, dag_run)

CleanupRun(db, dr_created, dag_run) ==
    IF dr_created THEN DeleteRun(db, dag_run) ELSE db

\* lines 403-410: the finally block; a pending exception goes on to the caller.
TaskTestFinally ==
    /\ frame.pc = "finally"
    /\ propagate' = RestorePropagate(frame.already_has_stream_handler,
                                     propagate)
    /\ LET after == CleanupRun(Db, frame.dr_created, frame.ti.dag_run)
       IN  /\ dag_runs' = after.runs
           /\ task_instances' = after.tis
    /\ frame' = [frame EXCEPT !.pc = "done"]
    /\ UNCHANGED <<procs, dag_versions, handlers, environ, mask_secrets, now, res>>

\* The command has returned or raised and its process ends: the next
\* command starts from the configured logger, environment and settings.
\* The database is what stays.
TaskTestReturn ==
    /\ frame.pc = "done"
    /\ frame' = IdleFrame
    /\ res' = NoRes
    /\ propagate' = frame.propagate0
    /\ environ' = {}
    /\ mask_secrets' = FALSE
    /\ UNCHANGED <<procs, dag_runs, task_instances, dag_versions, handlers, now>>

(***************************************************************************)
(* The other callers.                                                      *)
(***************************************************************************)
\* _get_ti as task_state and task_failed_deps (create_if_necessary=False)
\* and task_render ("memory") call it, for any task object.
GetTiCall(task, map_index, ident, create_if_necessary) ==
    /\ frame.pc = "idle"
    /\ res = NoRes
    /\ LET r == GetTi(dag_runs, task_instances, dag_versions, now, task,
                      map_index, ident, create_if_necessary)
           after == CloseSession(Db, [runs |-> r.runs, tis |-> r.tis], r.exc)
       IN  /\ dag_runs' = after.runs
           /\ task_instances' = after.tis
           /\ res' = Observed("get_ti", "cli", task, map_index, ident,
                              create_if_necessary, r)
    /\ UNCHANGED <<procs, dag_versions, propagate, handlers, environ, mask_secrets,
                   now, frame>>

\* The caller calls _get_ti a second time with the arguments of a call that
\* succeeded with creation allowed (task_render run again).
GetTiAgain ==
    /\ frame.pc = "idle"
    /\ res # NoRes
    /\ res.op = "get_ti"
    /\ res.caller = "cli"
    /\ res.mode # CreateFalse
    /\ res.first = None
    /\ res.out.exc = NoExc
    /\ LET r == GetTi(dag_runs, task_instances, dag_versions, now, res.task,
                      res.map_index, res.ident, res.mode)
           after == CloseSession(Db, [runs |-> r.runs, tis |-> r.tis], r.exc)
       IN  /\ dag_runs' = after.runs
           /\ task_instances' = after.tis
           /\ res' = [Observed("get_ti", "cli", res.task, res.map_index,
                               res.ident, res.mode, r)
                          EXCEPT !.first = res.out]
    /\ UNCHANGED <<procs, dag_versions, propagate, handlers, environ, mask_secrets,
                   now, frame>>

\* _get_dag_run called on its own, without a store-creating mode.
GetDagRunCall(dag_id, ident, create_if_necessary) ==
    /\ frame.pc = "idle"
    /\ res = NoRes
    /\ LET r == GetDagRun(dag_runs, now, dag_id, create_if_necessary, ident)
       IN  /\ dag_runs' = r.runs
           /\ res' = Observed("get_dag_run", "cli", Task(dag_id, "t1"), -1,
                              ident, create_if_necessary, r)
    /\ UNCHANGED <<procs, task_instances, dag_versions, propagate, handlers,
                   environ, mask_secrets, now, frame>>

\* The caller of _get_dag_run / _get_ti is done with the result.
CallReturn ==
    /\ frame.pc = "idle"
    /\ res # NoRes
    /\ res' = NoRes
    /\ UNCHANGED <<procs, dag_runs, task_instances, dag_versions, propagate,
                   handlers, environ, mask_secrets, now, frame>>

Next ==
    \/ TaskTestCall
    \/ \E e \in EnvVarArgs : TaskTestSetup(e)
    \/ \E d \in Dags, t \in {"t1", "m1", "zz"} : TaskTestLoad(d, t)
    \/ \E p \in TaskParamArgs : TaskTestParams(p)
    \/ \E m \in MapIndexes, i \in Identifiers : TaskTestBind(m, i)
    \/ \E o \in RunTaskOutcomes : TaskTestRun(o)
    \/ \E pm \in BOOLEAN, inst \in InstalledSets : TaskTestDebug(pm, inst)
    \/ TaskTestFinally
    \/ TaskTestReturn
    \/ \E t \in AllTasks, m \in MapIndexes, i \in Identifiers,
          c \in {CreateFalse, "memory"} : GetTiCall(t, m, i, c)
    \/ GetTiAgain
    \/ \E d \in Dags, i \in Identifiers,
          c \in {CreateFalse, "memory", "bogus"} : GetDagRunCall(d, i, c)
    \/ CallReturn

Spec == Init /\ [][Next]_vars

(***************************************************************************)
(* Concurrent task_test invocations.  Each process runs task_test once on  *)
(* the shared database.  A step is one database round trip together with   *)
(* the statements that follow it in the same session: the fetch (lines     *)
(* 106-113) with, when it finds a run, the instance lookup; the creation   *)
(* (lines 119-158) with the instance lookup; the task body; the finally    *)
(* block.  Nothing in the code holds a lock between these.                 *)
(***************************************************************************)
InitConc ==
    /\ procs = [p \in Procs |-> IdleProc]
    /\ dag_runs \in InitialRunSets
    /\ task_instances = InitialTis(dag_runs)
    /\ dag_versions = {"W1"}
    /\ propagate = FALSE
    /\ handlers = <<>>
    /\ environ = {}
    /\ mask_secrets = FALSE
    /\ now = 0
    /\ frame = IdleFrame
    /\ res = NoRes

\* What the process holds once _get_ti has returned or raised.
Bound(pr, b) ==
    IF b.exc = NoExc
    THEN [pr EXCEPT !.pc = "run", !.dag_run = b.dag_run,
                    !.dr_created = b.dr_created]
    ELSE [pr EXCEPT !.pc = "done", !.dag_run = b.dag_run, !.exc = b.exc]

\* lines 394-396 up to the fetch of _get_dag_run (lines 106-113): a run the
\* identifier names is returned and the instance bound on it; otherwise the
\* process goes on to create one.
ConcFetch(p, dag_id, ident) ==
    /\ procs[p].pc = "idle"
    /\ LET task == Task(dag_id, "t1")
           found == FetchDagRun(dag_runs, dag_id, ident)
           pr == [procs[p] EXCEPT !.task = task, !.ident = ident]
       IN  IF Truthy(ident) /\ found.dag_run # None
           THEN LET b == BindInstance(ReturnExisting(found.dag_run, dag_runs),
                                      task_instances, dag_versions, task, -1,
                                      "db")
                    after == CloseSession(Db, [runs |-> b.runs,
                                               tis |-> b.tis], b.exc)
                IN  /\ dag_runs' = after.runs
                    /\ task_instances' = after.tis
                    /\ procs' = [procs EXCEPT
                                    ![p] = Bound([pr EXCEPT !.matched = TRUE], b)]
           ELSE /\ procs' = [procs EXCEPT
                                ![p] = [pr EXCEPT
                                          !.pc = "create",
                                          !.logical_date =
                                              IF Truthy(ident)
                                              THEN found.logical_date
                                              ELSE None]]
                /\ UNCHANGED <<dag_runs, task_instances>>
    /\ UNCHANGED <<dag_versions, propagate, handlers, environ, mask_secrets,
                   now, frame, res>>

\* lines 119-158 and 196-216: the run is created in the store under an id
\* generated at the current instant, and the instance is bound on it.
ConcCreate(p) ==
    /\ procs[p].pc = "create"
    /\ LET pr == procs[p]
           data_interval ==
               IF pr.logical_date # None
               THEN InferManualDataInterval(pr.logical_date)
               ELSE None
           run_after == IF data_interval # None THEN data_interval.end
                        ELSE Dt(now)
           dr == CreateInDb(dag_runs, now, pr.task.dag, pr.logical_date,
                            run_after, Truthy(pr.ident))
           b == BindInstance(dr, task_instances, dag_versions, pr.task, -1,
                             "db")
           after == CloseSession(Db, [runs |-> b.runs, tis |-> b.tis], b.exc)
       IN  /\ dag_runs' = after.runs
           /\ task_instances' = after.tis
           /\ procs' = [procs EXCEPT ![p] = Bound(pr, b)]
    /\ UNCHANGED <<dag_versions, propagate, handlers, environ, mask_secrets,
                   now, frame, res>>

\* lines 398-402: the task body has run, whatever its outcome.
ConcRun(p) ==
    /\ procs[p].pc = "run"
    /\ procs' = [procs EXCEPT ![p] = [procs[p] EXCEPT !.pc = "finally"]]
    /\ UNCHANGED <<dag_runs, task_instances, dag_versions, propagate, handlers,
                   environ, mask_secrets, now, frame, res>>

\* lines 408-410: a run this process created is deleted.
ConcFinally(p) ==
    /\ procs[p].pc = "finally"
    /\ LET after == CleanupRun(Db, procs[p].dr_created, procs[p].dag_run)
       IN  /\ dag_runs' = after.runs
           /\ task_instances' = after.tis
    /\ procs' = [procs EXCEPT ![p] = [procs[p] EXCEPT !.pc = "done"]]
    /\ UNCHANGED <<dag_versions, propagate, handlers, environ, mask_secrets,
                   now, frame, res>>

\* Time passes between the steps of the processes.
ConcTick ==
    /\ now < MaxClock
    /\ now' = now + 1
    /\ UNCHANGED <<dag_runs, task_instances, dag_versions, propagate, handlers,
                   environ, mask_secrets, frame, res, procs>>

NextConc ==
    \/ \E p \in Procs, d \in Dags, i \in Identifiers : ConcFetch(p, d, i)
    \/ \E p \in Procs : ConcCreate(p)
    \/ \E p \in Procs : ConcRun(p)
    \/ \E p \in Procs : ConcFinally(p)
    \/ ConcTick

SpecConc == InitConc /\ [][NextConc]_vars

(***************************************************************************)
(* Properties.                                                             *)
(***************************************************************************)
\* A run of the workflow that the identifier names, by run id or by the
\* logical date it parses to.
RunMatches(r, dag_id, ident) ==
    /\ r.dag_id = dag_id
    /\ \/ r.run_id = ident
       \/ ParseDate(ident) # None /\ r.logical_date = ParseDate(ident)

Matches(runs, dag_id, ident) ==
    Truthy(ident) /\ \E r \in runs : RunMatches(r, dag_id, ident)

\* The identifier task_test was given names a run that existed at the call.
FrameMatches ==
    frame.task # None /\ Matches(frame.runs0, frame.task.dag, frame.ident)

\* task_test got as far as calling _get_ti.
BindReached ==
    /\ frame.pc \in {"run", "debug", "finally", "done"}
    /\ frame.task # None
    /\ frame.exc.type \notin {"JSONDecodeError", "ParamValidationError"}

\* C1: for a non-mapped task and an identifier (possibly absent) that matches
\* no existing run, task_test creates one transient run in the database,
\* which is there while the task executes, and once the task body has been
\* executed -- whether it succeeded, failed or raised -- the run it created
\* is gone from the database when task_test returns or raises.  A call with
\* map_index -1 on a serialized workflow does reach the execution.
C1_TransientRunRemoved ==
    /\ (/\ frame.pc \in {"run", "debug", "finally"}
        /\ ~frame.task.mapped
        /\ ~FrameMatches)
       => /\ frame.dr_created
          /\ frame.made = {frame.ti.dag_run}
          /\ frame.made \cap frame.runs0 = {}
          /\ frame.ti.dag_run \in dag_runs
    /\ (/\ frame.pc = "done"
        /\ frame.executed
        /\ ~frame.task.mapped
        /\ ~FrameMatches)
       => /\ frame.dr_created
          /\ frame.made # {}
          /\ frame.made \cap dag_runs = {}
          /\ dag_runs = frame.runs0
    /\ (/\ frame.pc = "done"
        /\ BindReached
        /\ ~frame.task.mapped
        /\ frame.map_index = -1
        /\ frame.task.dag \in dag_versions
        /\ ~FrameMatches)
       => frame.executed

C1_Witness ==
    /\ frame.pc = "done"
    /\ frame.executed
    /\ frame.exc.type = "TaskError"
    /\ ~frame.task.mapped
    /\ frame.ident = None
    /\ frame.dr_created
    /\ frame.made # {}
    /\ frame.made \cap dag_runs = {}

\* C2: when the identifier given to task_test names a run that is already in
\* the database (by run id or by logical date), no run is created, the
\* instance is bound to that run with dr_created false, and the runs in the
\* database when task_test finishes are the runs that were there at the
\* call, whatever the task did.
C2_ExistingRunReused ==
    /\ (BindReached /\ FrameMatches)
       => /\ frame.made = {}
          /\ ~frame.dr_created
          /\ dag_runs = frame.runs0
    /\ (BindReached /\ FrameMatches /\ frame.ti # None)
       => /\ RunMatches(frame.ti.dag_run, frame.task.dag, frame.ident)
          /\ frame.ti.dag_run \in frame.runs0
          /\ frame.ti.dag_run \in dag_runs

C2_Witness ==
    /\ frame.pc = "done"
    /\ frame.executed
    /\ frame.exc.type = "TaskError"
    /\ FrameMatches
    /\ frame.ti.dag_run.run_id # frame.ident
    /\ frame.ti.dag_run \in dag_runs

\* The created flag of the observed call.
ResCreated ==
    IF res.op = "get_dag_run" THEN res.out.created ELSE res.out.dr_created

\* The observed call resolved its identifier against the store, and the
\* identifier names an existing run of the workflow.
ResMatches ==
    /\ res.op # "none"
    /\ res.out.fetched
    /\ Matches(res.pre_runs, res.task.dag, res.ident)

\* C3: whenever the identifier resolves to an existing run, _get_dag_run
\* (called directly or through _get_ti, with creation disabled, "memory" or
\* "db") yields exactly that run -- the one with that run id if there is
\* one, else the one with that logical date -- with created false, and the
\* runs in the database are what they were before the call.
C3_ExistingRunReturned ==
    ResMatches =>
        /\ res.out.exc.type # "DagRunNotFound"
        /\ res.out.dag_run \in res.pre_runs
        /\ RunMatches(res.out.dag_run, res.task.dag, res.ident)
        /\ (\E r \in res.pre_runs :
                r.dag_id = res.task.dag /\ r.run_id = res.ident)
           => res.out.dag_run.run_id = res.ident
        /\ ~ResCreated
        /\ res.out.runs = res.pre_runs
        /\ dag_runs = res.pre_runs
        /\ res.op = "get_dag_run" => res.out.exc = NoExc

C3_Witness ==
    /\ ResMatches
    /\ res.mode = "db"
    /\ res.out.exc = NoExc
    /\ res.out.dag_run.run_id # res.ident
    /\ res.out.dag_run.logical_date = ParseDate(res.ident)
    /\ ~ResCreated
    /\ dag_runs = res.pre_runs

\* The _get_ti call of the task_test in progress failed.
BindFailed ==
    /\ frame.pc = "done"
    /\ res.op = "get_ti"
    /\ res.caller = "task_test"
    /\ res.out.exc # NoExc

RaisedFromStep4To7 ==
    /\ frame.pc = "done"
    /\ frame.exc # NoExc
    /\ frame.exc.type # "TaskNotFound"

\* C5: on every exit of task_test by an exception of steps 4-7 the task
\* logger's propagate flag is back at the value it had before the call.
C5_PropagateRestoredOnFailure ==
    RaisedFromStep4To7 => propagate = frame.propagate0

\* C6: after a task_test call that reached the execution of the task, the
\* task logger's propagate flag equals the value it had before the call,
\* for every initial value of the flag and every handler configuration.
C6_PropagateRestored ==
    (frame.pc = "done" /\ frame.executed) => propagate = frame.propagate0

\* The checks _get_ti makes before the map index: the task has a workflow
\* that lists it, and an identifier is given unless creation is allowed.
ResTiChecked ==
    /\ res.op = "get_ti"
    /\ res.task.dag # NoDag
    /\ res.task.task_id \in TaskDict(res.task.dag)
    /\ Truthy(res.ident) \/ res.mode # CreateFalse

\* The map index fits the task: >= 0 for a mapped task, < 0 for any other.
MapIndexFits(task, map_index) == task.mapped <=> map_index >= 0

DbUntouched ==
    /\ dag_runs = res.pre_runs
    /\ task_instances = res.pre_tis
    /\ res.out.runs = res.pre_runs

\* C7: with create_if_necessary=False, _get_ti adds neither a run nor a task
\* instance to the database, and a call that passes the argument checks
\* ends in exactly one of three ways: DagRunNotFound when the identifier
\* names no run, TaskInstanceNotFound when the run has no instance for
\* (task, map_index), else the existing instance of the existing run.
C7_NoCreationWhenDisabled ==
    (res.op = "get_ti" /\ res.mode = CreateFalse) =>
        /\ DbUntouched
        /\ res.out.tis = res.pre_tis
        /\ ~res.out.dr_created
        /\ (ResTiChecked /\ MapIndexFits(res.task, res.map_index)) =>
            IF ~Matches(res.pre_runs, res.task.dag, res.ident)
            THEN res.out.exc.type = "DagRunNotFound" /\ res.out.ti = None
            ELSE /\ RunMatches(res.out.dag_run, res.task.dag, res.ident)
                 /\ res.out.dag_run \in res.pre_runs
                 /\ IF TiRow(res.task.dag, res.out.dag_run.run_id,
                             res.task.task_id, res.map_index) \in res.pre_tis
                    THEN /\ res.out.exc = NoExc
                         /\ res.out.ti.dag_run = res.out.dag_run
                         /\ res.out.ti.task_id = res.task.task_id
                         /\ res.out.ti.map_index = res.map_index
                         /\ res.out.ti.persisted
                    ELSE /\ res.out.exc.type = "TaskInstanceNotFound"
                         /\ res.out.ti = None

C7_Witness ==
    /\ res.op = "get_ti"
    /\ res.mode = CreateFalse
    /\ res.out.exc.type = "TaskInstanceNotFound"
    /\ res.out.dag_run \in dag_runs
    /\ DbUntouched

\* C8: with create_if_necessary=False and an empty or absent identifier,
\* _get_dag_run fails with the "must provide" ValueError, and _get_ti with a
\* ValueError (that one unless the task itself is rejected first), before
\* the store is looked up and without any run or instance being created.
C8_EmptyIdentifierRejected ==
    (res.op # "none" /\ res.mode = CreateFalse /\ ~Truthy(res.ident)) =>
        /\ res.out.exc.type = "ValueError"
        /\ (\/ res.op = "get_dag_run"
            \/ /\ res.task.dag # NoDag
               /\ res.task.task_id \in TaskDict(res.task.dag))
           => res.out.exc.msg = "must provide"
        /\ ~res.out.fetched
        /\ res.out.dag_run = None
        /\ DbUntouched
        /\ task_instances = res.pre_tis

C8_Witness ==
    /\ res.op = "get_ti"
    /\ res.mode = CreateFalse
    /\ res.ident = Str(<<>>)
    /\ res.task.mapped
    /\ res.map_index = -1
    /\ res.out.exc = Exc("ValueError", "must provide")
    /\ DbUntouched

\* C9: a _get_ti call that passes the checks made before it fails with
\* RuntimeError exactly when a mapped task is given map_index < 0 or a
\* non-mapped task map_index >= 0; the rejected call has not looked up or
\* created a run, and the database is as before.
C9_MapIndexCheck ==
    ResTiChecked =>
        /\ (res.out.exc.type = "RuntimeError")
           <=> ~MapIndexFits(res.task, res.map_index)
        /\ (res.out.exc.type = "RuntimeError") =>
            /\ res.out.exc.msg =
                 IF res.task.mapped
                 THEN "No map_index passed to mapped task"
                 ELSE "map_index passed to non-mapped task"
            /\ ~res.out.fetched
            /\ res.out.dag_run = None
            /\ res.out.ti = None
            /\ DbUntouched

C9_Witness ==
    /\ res.op = "get_ti"
    /\ res.caller = "task_test"
    /\ ~res.task.mapped
    /\ res.map_index = 0
    /\ res.ident = None
    /\ res.out.exc.type = "RuntimeError"
    /\ DbUntouched

\* The observed _get_ti call resolved a run that has no instance for
\* (task, map_index), with creation allowed, for a workflow that has no
\* serialized version.
ResUnserializedCreate ==
    /\ res.op = "get_ti"
    /\ res.out.dag_run # None
    /\ TiRow(res.task.dag, res.out.dag_run.run_id, res.task.task_id,
             res.map_index) \notin res.pre_tis
    /\ res.mode # CreateFalse
    /\ res.task.dag \notin dag_versions

\* C10: such a call fails with the "not serialized" ValueError; no task
\* instance is returned and none is added to the database.
C10_NotSerialized ==
    ResUnserializedCreate =>
        /\ res.out.exc = Exc("ValueError", "Dag is not serialized")
        /\ res.out.ti = None
        /\ res.out.tis = res.pre_tis
        /\ task_instances = res.pre_tis

C10_Witness ==
    /\ ResUnserializedCreate
    /\ res.mode = "memory"
    /\ res.out.dag_run \in dag_runs
    /\ res.out.exc = Exc("ValueError", "Dag is not serialized")
    /\ task_instances = res.pre_tis

\* The observed call got as far as resolving the run: always for
\* _get_dag_run, after the argument checks for _get_ti.
ResResolves ==
    /\ res.op # "none"
    /\ res.op = "get_ti" => (ResTiChecked /\ MapIndexFits(res.task, res.map_index))

\* The observed call ran in "memory" mode with an identifier that parses as
\* an instant and names no run of the workflow.
ResMemoryDate ==
    /\ ResResolves
    /\ res.mode = "memory"
    /\ ParseDate(res.ident) # None
    /\ ~Matches(res.pre_runs, res.task.dag, res.ident)

\* C11: in "memory" mode, for an identifier that parses as an instant and
\* matches no run, the run comes back created, in state running, with the
\* parsed instant as its logical date; neither it nor the task instance
\* _get_ti builds on it is written to the database, whose runs and task
\* instances are what they were before the call.
C11_MemoryRunNotStored ==
    ResMemoryDate =>
        /\ res.out.dag_run # None
        /\ res.out.dag_run.state = "running"
        /\ res.out.dag_run.logical_date = ParseDate(res.ident)
        /\ res.out.dag_run \notin dag_runs
        /\ res.out.exc = NoExc => ResCreated
        /\ DbUntouched
        /\ (res.op = "get_ti" /\ res.out.exc = NoExc) =>
            /\ res.out.ti.dag_run = res.out.dag_run
            /\ ~res.out.ti.persisted
            /\ res.out.tis = res.pre_tis
            /\ TiRow(res.task.dag, res.out.dag_run.run_id, res.task.task_id,
                     res.map_index) \notin task_instances

C11_Witness ==
    /\ ResMemoryDate
    /\ res.op = "get_ti"
    /\ res.ident = ShortDate1
    /\ res.out.exc = NoExc
    /\ res.out.dr_created
    /\ res.out.dag_run.logical_date = Dt(1)
    /\ ~res.out.ti.persisted
    /\ DbUntouched

\* A run id of the form _generate_temporary_run_id produces.
IsTemporaryRunId(run_id) ==
    \E n \in 0..MaxClock : run_id = GenerateTemporaryRunId(n)

\* The observed call created a run in "memory" mode.
ResMemoryCreated ==
    /\ ResResolves
    /\ res.mode = "memory"
    /\ res.out.dag_run # None
    /\ res.out.dag_run \notin res.pre_runs

\* C12: a run created in "memory" mode carries the original input as its run
\* id when one was supplied and a generated temporary id when it was absent;
\* its run id is never null.
C12_MemoryRunIdNonNull ==
    ResMemoryCreated =>
        /\ res.ident # None => res.out.dag_run.run_id = res.ident
        /\ res.ident = None => IsTemporaryRunId(res.out.dag_run.run_id)
        /\ res.out.dag_run.run_id # None

\* The observed call created a run (in either creation mode) for an
\* identifier that was supplied.
ResCreatedFromInput ==
    /\ ResResolves
    /\ res.mode \in {"memory", "db"}
    /\ Truthy(res.ident)
    /\ res.out.dag_run # None
    /\ res.out.dag_run \notin res.pre_runs

\* C13: when _get_dag_run creates a run, an input that looks like a date
\* becomes the run's logical date; any other input becomes the run's run id
\* and the logical date is the current time.
C13_CreatedRunFollowsDocstring ==
    ResCreatedFromInput =>
        IF ParseDate(res.ident) # None
        THEN res.out.dag_run.logical_date = ParseDate(res.ident)
        ELSE /\ res.out.dag_run.run_id = res.ident
             /\ res.out.dag_run.logical_date = Dt(now)

\* C14: once task_test is past its environment step (lines 378-381), and
\* still when it has finished, the process environment holds the test-mode
\* marker AIRFLOW_TEST_MODE=True, whether or not overrides were supplied.
C14_TestModeMarkerSet ==
    frame.pc \notin {"idle", "setup"} =>
        Item("AIRFLOW_TEST_MODE", "True") \in environ

\* task_test called _guess_debugger (line 401): a module came back, or its
\* ImportError is on the way out.
HookInvoked ==
    \/ frame.debugger # "none"
    \/ frame.exc.type = "ImportError"

\* _run_task returned instead of raising.
BodyReturned ==
    /\ frame.executed
    /\ frame.exc.type # "TaskError"

\* Position of the first module of the preference list that can be loaded,
\* 0 when none can.
FirstLoadable(installed) ==
    LET idx == {i \in DOMAIN SUPPORTED_DEBUGGER_MODULES :
                    SUPPORTED_DEBUGGER_MODULES[i] \in installed}
    IN  IF idx = {} THEN 0
        ELSE CHOOSE i \in idx : \A j \in idx : i <= j

\* The finally block has not run yet: the run this invocation created is
\* still stored and a forced propagate flag is still on.
CleanupPending ==
    /\ frame.made \subseteq dag_runs
    /\ ~frame.already_has_stream_handler => propagate

\* The finally block has run.
CleanupDone ==
    /\ frame.made \cap dag_runs = {}
    /\ frame.dr_created => frame.ti.dag_run \notin dag_runs
    /\ ~frame.already_has_stream_handler => ~propagate

\* C18: past the debugger step of task_test, the hook was invoked exactly
\* when the task body returned with the instance failed and post-mortem was
\* asked for; it was invoked after execution and before the cleanup; the
\* debugger is the first module of the preference list that loads; when none
\* loads the ImportError goes to the caller and the cleanup has run by the
\* time the command ends.
C18_DebuggerHook ==
    /\ (frame.pc \in {"finally", "done"} /\ BodyReturned) =>
          (HookInvoked <=>
              (frame.ti.state = "failed" /\ frame.post_mortem))
    /\ HookInvoked =>
          /\ frame.pc \in {"finally", "done"}
          /\ frame.executed
          /\ frame.pc = "finally" => CleanupPending
          /\ LET i == FirstLoadable(frame.installed)
             IN  IF i = 0
                 THEN /\ frame.debugger = "none"
                      /\ frame.exc = Exc("ImportError", "")
                 ELSE /\ frame.debugger = SUPPORTED_DEBUGGER_MODULES[i]
                      /\ frame.exc = NoExc
    /\ (frame.pc = "done" /\ frame.exc.type = "ImportError") => CleanupDone

C18_Witness ==
    /\ frame.pc = "done"
    /\ frame.post_mortem
    /\ frame.ti.state = "failed"
    /\ frame.installed = {}
    /\ frame.exc.type = "ImportError"
    /\ frame.dr_created
    /\ frame.made # {}
    /\ ~frame.already_has_stream_handler
    /\ CleanupDone

\* The row a task instance of the observed call has in the database.
ResRow(out) ==
    TiRow(res.task.dag, out.dag_run.run_id, res.task.task_id, res.map_index)

\* The observed _get_ti call succeeded with creation allowed.
ResBound ==
    /\ res.op = "get_ti"
    /\ res.mode \in {"memory", "db"}
    /\ res.out.exc = NoExc

\* The observed call repeats a successful call with the same arguments and
\* resolved the run of the same id.
ResRepeated ==
    /\ ResBound
    /\ res.first # None
    /\ res.out.dag_run.run_id = res.first.dag_run.run_id

\* C15 as stated: the second of two _get_ti calls for the same (run, task,
\* map_index) with creation allowed builds no instance and returns the record
\* the first one produced; in either mode a call whose triple already has a
\* record returns that record and adds none.
C15_SecondCallSameRecord ==
    /\ ResRepeated =>
          /\ ~res.out.ti.constructed
          /\ res.out.tis = res.pre_tis
    /\ (ResBound /\ ResRow(res.out) \in res.pre_tis) =>
          /\ ~res.out.ti.constructed
          /\ res.out.tis = res.pre_tis

\* C15 amended: when the run the calls resolve is a run of the database, the
\* first call leaves the instance's row there and the second call returns
\* that row without building an instance or adding a row; in either mode a
\* call whose triple already has a row returns it and adds none, and a call
\* that builds an instance on a stored run stores its row.
C15_SecondCallSameStoredRecord ==
    /\ (ResRepeated /\ res.first.dag_run \in res.pre_runs) =>
          /\ res.out.dag_run = res.first.dag_run
          /\ ResRow(res.out) \in res.pre_tis
          /\ ~res.out.ti.constructed
          /\ res.out.ti.persisted
          /\ res.out.tis = res.pre_tis
          /\ task_instances = res.pre_tis
    /\ (ResBound /\ ResRow(res.out) \in res.pre_tis) =>
          /\ ~res.out.ti.constructed
          /\ res.out.ti.persisted
          /\ res.out.tis = res.pre_tis
    /\ (ResBound /\ res.out.dag_run \in dag_runs) =>
          /\ ResRow(res.out) \in task_instances
          /\ res.out.ti.persisted

C15_Witness ==
    /\ ResRepeated
    /\ res.mode = "memory"
    /\ res.first.dag_run \in res.pre_runs
    /\ res.first.ti.constructed
    /\ ~res.out.ti.constructed
    /\ res.out.ti.persisted
    /\ task_instances = res.pre_tis

\* The observed task_test bind created a run under a generated id.
ResTemporaryRun ==
    /\ res.op = "get_ti"
    /\ res.mode = "db"
    /\ res.out.dag_run # None
    /\ res.out.dag_run \notin res.pre_runs

\* C16: a generated run id is the prefix __airflow_temporary_run_, the
\* ISO-8601 text of the instant of generation and the suffix __; ids
\* generated at different instants (one microsecond apart or more) differ,
\* so the runs of the database created under generated ids all have
\* different ids.
C16_TemporaryRunId ==
    /\ ResTemporaryRun =>
          LET id == res.out.dag_run.run_id
          IN  /\ id.t = "str"
              /\ Len(id.s) = 3
              /\ id.s[1] = Lit("__airflow_temporary_run_")
              /\ ParseDate(Str(<<id.s[2]>>)) = Dt(now)
              /\ id.s[3] = Lit("__")
    /\ \A m, n \in 0..MaxClock :
          m # n => GenerateTemporaryRunId(m) # GenerateTemporaryRunId(n)
    /\ \A r1, r2 \in dag_runs :
          (IsTemporaryRunId(r1.run_id) /\ IsTemporaryRunId(r2.run_id)
              /\ r1 # r2) => r1.run_id # r2.run_id

C16_Witness ==
    /\ ResTemporaryRun
    /\ res.out.dag_run \in dag_runs
    /\ \E r \in res.pre_runs :
          /\ IsTemporaryRunId(r.run_id)
          /\ r.run_id # res.out.dag_run.run_id

\* Two processes are past run resolution and not yet past cleanup.
InFlight(p) == procs[p].pc \in {"run", "finally"}

\* Two processes were given the same workflow and identifier, and the
\* identifier named no run when either of them looked.
SameUnmatchedTarget(p, q) ==
    /\ p # q
    /\ procs[p].task = procs[q].task
    /\ procs[p].ident = procs[q].ident
    /\ ~procs[p].matched
    /\ ~procs[q].matched

\* C17: of two concurrent db-mode invocations on the same identifier, which
\* matched no run when they started, only one creates a run and the other
\* reuses it; the store never holds two runs created for that identifier.
C17_OneCreatorPerIdentifier ==
    \A p, q \in Procs :
        (SameUnmatchedTarget(p, q) /\ InFlight(p) /\ InFlight(q)) =>
            /\ ~(procs[p].dr_created /\ procs[q].dr_created)
            /\ ~(/\ procs[p].dag_run # procs[q].dag_run
                 /\ procs[p].dag_run \in dag_runs
                 /\ procs[q].dag_run \in dag_runs)

\* C19: while an invocation that reused a run (run_created false) is
\* executing its task, that run is in the store: no other invocation's
\* cleanup has deleted it.
C19_ReusedRunNotDeleted ==
    \A p \in Procs :
        (procs[p].pc = "run" /\ ~procs[p].dr_created) =>
            procs[p].dag_run \in dag_runs
====
